---- MODULE Spec2Model ----
(***************************************************************************)
(* Model of src/orcid_to_bluesky.py: the ORCID -> Bluesky announcement     *)
(* pipeline (fetch_orcid_name, fetch_works, filter_recent, main).          *)
(*                                                                         *)
(* Strings are sequences of one-character strings, so that lower(),        *)
(* lstrip("#"), strip() and concatenation are computed, not assumed.       *)
(* JSON values (and the Python values computed from them) are records      *)
(* tagged by k:                                                            *)
(*   absent (key not in the dict), null (None), str, num, list,            *)
(*   obj (a dict, f = what it holds under the one key the code reads),     *)
(*   ext (an external-id dict, two keys), name (a name dict, two keys).    *)
(* A raised exception is the value Raise.                                  *)
(* Instants are integers in milliseconds since the epoch.                  *)
(***************************************************************************)
EXTENDS Integers, Sequences, FiniteSets, TLC

----------------------------------------------------------------------------
(* Bounds of the model *)

\* most work-summary entries in one works response
MaxWs == 3
\* largest days_back
MaxDays == 1
\* most configured identifiers
MaxIds == 2
\* largest max_posts_total
MaxPosts == 2
\* most configured hashtags
MaxTags == 2

----------------------------------------------------------------------------
(* Python / JSON values *)

Absent == [k |-> "absent"]
Null == [k |-> "null"]
Raise == [k |-> "raise"]
Str(s) == [k |-> "str", s |-> s]
Num(n) == [k |-> "num", n |-> n]
List(l) == [k |-> "list", l |-> l]
Obj(f) == [k |-> "obj", f |-> f]
EmptyObj == Obj(Absent)
EmptyList == List(<<>>)
EmptyStr == Str(<<>>)

\* bool(v) of a Python value. A dict that lacks the key the code reads is
\* modelled as the empty dict: "d or {}" then reads the same default.
Truthy(v) ==
    CASE v.k = "null" -> FALSE
      [] v.k = "absent" -> FALSE
      [] v.k = "str" -> v.s # <<>>
      [] v.k = "num" -> v.n # 0
      [] v.k = "list" -> v.l # <<>>
      [] v.k = "obj" -> v.f.k # "absent"
      [] OTHER -> TRUE

\* v or alt
Or(v, alt) == IF Truthy(v) THEN v ELSE alt

\* ws.get(key, default) where field is what the dict holds under key
Field(field, default) == IF field.k = "absent" THEN default ELSE field

\* d.get(key, default): AttributeError unless d is a dict
DictGet(d, default) ==
    IF d.k = "obj" THEN Field(d.f, default) ELSE Raise

----------------------------------------------------------------------------
(* Strings *)

Upper == <<"A", "B", "C", "D", "E", "F", "G", "H", "I", "J", "K", "L", "M",
           "N", "O", "P", "Q", "R", "S", "T", "U", "V", "W", "X", "Y", "Z">>
LowerOf == <<"a", "b", "c", "d", "e", "f", "g", "h", "i", "j", "k", "l", "m",
             "n", "o", "p", "q", "r", "s", "t", "u", "v", "w", "x", "y", "z">>

LowerChar(c) ==
    IF \E n \in DOMAIN Upper : Upper[n] = c
    THEN LowerOf[CHOOSE n \in DOMAIN Upper : Upper[n] = c]
    ELSE c

\* a comparison of the type that is case-sensitive
LowerNoFold(s) == s

\* str.lower()
Lower(s) == [n \in DOMAIN s |-> LowerChar(s[n])]

IsSpace(c) == c \in {" ", "\t", "\n"}

RECURSIVE LStripSpace(_)
LStripSpace(s) ==
    IF s # <<>> /\ IsSpace(Head(s)) THEN LStripSpace(Tail(s)) ELSE s

RECURSIVE RStripSpace(_)
RStripSpace(s) ==
    IF s # <<>> /\ IsSpace(s[Len(s)])
    THEN RStripSpace(SubSeq(s, 1, Len(s) - 1))
    ELSE s

\* str.strip()
Strip(s) == RStripSpace(LStripSpace(s))

RECURSIVE LStripHash(_)
\* str.lstrip("#"): every leading "#" goes
LStripHash(s) ==
    IF s # <<>> /\ Head(s) = "#" THEN LStripHash(Tail(s)) ELSE s

DoiLit == <<"d", "o", "i">>
DoiPrefix == <<"h", "t", "t", "p", "s", ":", "/", "/",
               "d", "o", "i", ".", "o", "r", "g", "/">>
NoTitle == <<"(", "n", "o", " ", "t", "i", "t", "l", "e", ")">>

----------------------------------------------------------------------------
(* filter_recent *)

\* timedelta(days=1) in milliseconds
DayMs == 86400000

\* cutoff = now - timedelta(days=days)
Cutoff(now, days) == now - days * DayMs

\* ts = ws.get("last-modified-date", {}).get("value")
LastModified(ws) == DictGet(Field(ws.lmd, EmptyObj), Null)

\* the title of one work-summary (lines 76-83): a Python value or Raise
TitleOf(ws) ==
    LET title_obj == Or(Field(ws.title, EmptyObj), EmptyObj)
        got == DictGet(title_obj, EmptyObj)
    IN  IF got.k = "raise" THEN Raise
        ELSE LET tval == Or(got, EmptyObj)
             IN  CASE tval.k = "obj" -> DictGet(tval, Str(NoTitle))
                   [] tval.k = "str" -> tval
                   [] OTHER -> Str(NoTitle)

RECURSIVE ScanExt(_, _)
\* the loop over external ids (lines 87-92) from position n:
\* Null (no url), Str(url) or Raise
ScanExt(l, n) ==
    IF n > Len(l) THEN Null
    ELSE LET ext == l[n]
         IN  IF ext.k # "ext" THEN Raise
             ELSE LET t == Or(Field(ext.type, Null), EmptyStr)
                  IN  IF t.k # "str" THEN Raise
                      ELSE IF Lower(t.s) = DoiLit
                      THEN LET val == Field(ext.value, Null)
                           IN  IF Truthy(val)
                               THEN IF val.k = "str"
                                    THEN Str(DoiPrefix \o val.s)
                                    ELSE Raise
                               ELSE ScanExt(l, n + 1)
                      ELSE ScanExt(l, n + 1)

\* url of one work-summary (lines 86-92)
UrlOf(ws) ==
    LET got == DictGet(Field(ws.extids, EmptyObj), EmptyList)
    IN  IF got.k = "raise" THEN Raise
        ELSE LET l == Or(got, EmptyList)
             IN  IF l.k = "list" THEN ScanExt(l.l, 1) ELSE Raise

Skip == [k |-> "skip"]
Item(title, url, date) ==
    [k |-> "item", title |-> title, url |-> url, date |-> date]

\* the body of the inner loop for one work-summary (lines 67-94):
\* Skip (continue), an item (appended) or Raise
ProcessWs(ws, cutoff) ==
    LET ts == LastModified(ws)
    IN  IF ts.k = "raise" THEN Raise
        ELSE IF ~Truthy(ts) THEN Skip
        ELSE IF ts.k # "num" THEN Raise
        ELSE IF ts.n < cutoff THEN Skip
        ELSE LET title == TitleOf(ws)
                 url == UrlOf(ws)
             IN  IF title.k = "raise" \/ url.k = "raise" THEN Raise
                 ELSE Item(title, url, ts.n)

\* g.get("work-summary", []) or []
WorkSummaries(g) ==
    LET got == DictGet(g, EmptyList)
    IN  IF got.k = "raise" THEN Raise ELSE Or(got, EmptyList)

RECURSIVE ScanWs(_, _, _, _)
\* the inner loop from position n, results so far in acc
ScanWs(l, n, cutoff, acc) ==
    IF n > Len(l) THEN List(acc)
    ELSE LET r == ProcessWs(l[n], cutoff)
         IN  CASE r.k = "raise" -> Raise
               [] r.k = "skip" -> ScanWs(l, n + 1, cutoff, acc)
               [] OTHER -> ScanWs(l, n + 1, cutoff, Append(acc, r))

RECURSIVE ScanGroups(_, _, _, _)
\* the outer loop from group n, results so far in acc
ScanGroups(groups, n, cutoff, acc) ==
    IF n > Len(groups) THEN List(acc)
    ELSE LET wss == WorkSummaries(groups[n])
         IN  IF wss.k # "list" THEN Raise
             ELSE LET r == ScanWs(wss.l, 1, cutoff, acc)
                  IN  IF r.k = "raise" THEN Raise
                      ELSE ScanGroups(groups, n + 1, cutoff, r.l)

\* a sort that puts an element before those of its own date
InsertDescUnstable(sorted, x) ==
    LET keep == {n \in 0..Len(sorted) :
                    \A m \in 1..n : sorted[m].date > x.date}
        at == CHOOSE n \in keep : \A m \in keep : m <= n
    IN  SubSeq(sorted, 1, at) \o <<x>> \o SubSeq(sorted, at + 1, Len(sorted))

\* Insert x behind every element whose date is >= x's: what a stable sort
\* by descending key does with the next element of its input.
InsertDesc(sorted, x) ==
    LET keep == {n \in 0..Len(sorted) :
                    \A m \in 1..n : sorted[m].date >= x.date}
        at == CHOOSE n \in keep : \A m \in keep : m <= n
    IN  SubSeq(sorted, 1, at) \o <<x>> \o SubSeq(sorted, at + 1, Len(sorted))

RECURSIVE SortFrom(_, _, _)
SortFrom(l, n, acc) ==
    IF n > Len(l) THEN acc ELSE SortFrom(l, n + 1, InsertDesc(acc, l[n]))

\* sorted(results, key=lambda x: x["date"], reverse=True)
SortedDesc(l) == SortFrom(l, 1, <<>>)

\* filter_recent(groups, days) called at instant now: List(items) or Raise
filter_recent(groups, days, now) ==
    LET r == ScanGroups(groups, 1, Cutoff(now, days), <<>>)
    IN  IF r.k = "raise" THEN Raise ELSE List(SortedDesc(r.l))

----------------------------------------------------------------------------
(* fetch_orcid_name *)

\* one of data's name parts:
\* (name.get(key, {}) or {}).get("value") or ""
NamePart(field) ==
    LET d == Or(Field(field, EmptyObj), EmptyObj)
        v == DictGet(d, Null)
    IN  IF v.k = "raise" THEN Raise ELSE Or(v, EmptyStr)

RECURSIVE JoinSpace(_)
\* " ".join(parts) of a sequence of strings
JoinSpace(parts) ==
    IF parts = <<>> THEN <<>>
    ELSE IF Len(parts) = 1 THEN parts[1]
    ELSE parts[1] \o <<" ">> \o JoinSpace(Tail(parts))

\* lines 36-45, on the parsed body data: Str(full_name) or Raise
NameFromData(orcid_id, data) ==
    LET got == DictGet(data, EmptyObj)
    IN  IF got.k = "raise" THEN Raise
        ELSE LET name == Or(got, EmptyObj)
             IN  IF name.k \notin {"name", "obj"} THEN Raise
                 ELSE LET given == IF name.k = "name"
                                   THEN NamePart(name.given)
                                   ELSE EmptyStr
                          family == IF name.k = "name"
                                    THEN NamePart(name.family)
                                    ELSE EmptyStr
                      IN  IF given.k = "raise" \/ family.k = "raise"
                          THEN Raise
                          ELSE LET parts == SelectSeq(<<given, family>>, Truthy)
                               IN  IF \E n \in DOMAIN parts : parts[n].k # "str"
                                   THEN Raise
                                   ELSE LET full_name ==
                                              Strip(JoinSpace(
                                                  [n \in DOMAIN parts |-> parts[n].s]))
                                        IN  IF full_name = <<>>
                                            THEN Str(orcid_id)
                                            ELSE Str(full_name)

\* fetch_orcid_name(orcid_id) when the person request ends as resp:
\* a transport error, a non-2xx status and an unparsable body are caught
\* (lines 28-34); a parsed body goes on to lines 36-45
fetch_orcid_name(orcid_id, resp) ==
    IF resp.k = "body" THEN NameFromData(orcid_id, resp.data)
    ELSE Str(orcid_id)

----------------------------------------------------------------------------
(* composing a post: TextBuilder calls of main, lines 146-170 *)

NewPaperFrom == <<"N", "e", "w", " ", "p", "a", "p", "e", "r", " ",
                  "f", "r", "o", "m", " ">>
OrcidUrl == <<"h", "t", "t", "p", "s", ":", "/", "/",
              "o", "r", "c", "i", "d", ".", "o", "r", "g", "/">>

\* builder.text(t), builder.link(t, url), builder.tag(t, tag): one segment
TextSeg(t) == [kind |-> "text", text |-> t, target |-> <<>>]
LinkSeg(t, url) == [kind |-> "link", text |-> t, target |-> url]
TagSeg(t, tag) == [kind |-> "tag", text |-> t, target |-> tag]

\* a tag segment that carries the trailing space after the last tag too
TagAtTrailingSpace(hashtags, n) ==
    LET clean_tag == LStripHash(hashtags[n])
    IN  TagSeg(<<"#">> \o clean_tag \o <<" ">>, clean_tag)

\* the tag segment of hashtags[n] (lines 165-170)
TagAt(hashtags, n) ==
    LET clean_tag == LStripHash(hashtags[n])
        visible == <<"#">> \o clean_tag
    IN  TagSeg(IF n < Len(hashtags) THEN visible \o <<" ">> ELSE visible,
               clean_tag)

\* lines 162-170
TagSegs(hashtags) ==
    IF hashtags = <<>> THEN <<>>
    ELSE <<TextSeg(<<"\n">>)>> \o [n \in DOMAIN hashtags |-> TagAt(hashtags, n)]

\* lines 156-159
UrlSegs(item) ==
    IF Truthy(item.url)
    THEN <<TextSeg(<<"\n">>), LinkSeg(item.url.s, item.url.s)>>
    ELSE <<>>

\* lines 146-170: the segments of the builder, or Raise when "\n" + title
\* is no string concatenation
Compose(author_name, oid, item, hashtags) ==
    IF item.title.k # "str" THEN Raise
    ELSE List(<<TextSeg(NewPaperFrom),
                LinkSeg(author_name, OrcidUrl \o oid),
                TextSeg(<<"\n">> \o item.title.s)>>
              \o UrlSegs(item) \o TagSegs(hashtags))

RECURSIVE build_text(_)
\* builder.build_text(): the segments' texts, concatenated
build_text(segs) ==
    IF segs = <<>> THEN <<>> ELSE Head(segs).text \o build_text(Tail(segs))

----------------------------------------------------------------------------
(* State *)

VARIABLES
    cfg,         \* the loaded configuration (orcid_ids, max_posts, days_back, hashtags)
    works,       \* the registry: the works body of each identifier
    pc,          \* where main() is
    idx,         \* position of the outer loop in cfg.orcid_ids
    items,       \* items of the identifier being processed
    pos,         \* position of the inner loop in items
    posted,      \* main's counter
    name_cache,  \* main's name_cache
    doc,         \* the builder handed to client.send_post
    published,   \* the posts the platform accepted, in order
    calls,       \* the external calls made so far, in order
    failure,     \* what raised out of main(), if anything
    f_in,        \* filter_recent alone: its arguments and the instant of the call
    f_out,       \* filter_recent alone: its result
    n_in,        \* fetch_orcid_name alone: identifier and outcome of the request
    n_out,       \* fetch_orcid_name alone: its result
    c_in,        \* composing alone: author, identifier, item, hashtags
    c_out        \* composing alone: the builder's segments

runVars == <<cfg, works, pc, idx, items, pos, posted, name_cache, doc,
             published, calls, failure>>
filterVars == <<f_in, f_out>>
nameVars == <<n_in, n_out>>
composeVars == <<c_in, c_out>>
vars == <<runVars, filterVars, nameVars, composeVars>>
\* what a run of main() leaves alone
idleVars == <<filterVars, nameVars, composeVars>>

NotCalled == [k |-> "none"]

----------------------------------------------------------------------------
(* Inputs the registry can send *)

\* the instant of the calls to datetime.now
NowMs == DayMs

Ws(lmd, title, extids) == [lmd |-> lmd, title |-> title, extids |-> extids]
Ext(type, value) == [k |-> "ext", type |-> type, value |-> value]
At(t) == Obj(Num(t))
Nested(s) == Obj(Obj(Str(s)))

\* last-modified-date values around the cutoffs NowMs - days * DayMs
TsSet == {0 - DayMs - 1, 0 - DayMs, 0 - 1, 0, 1, DayMs - 1, DayMs, DayMs + 1}

LmdShapes == {Absent, Null, Obj(Absent), Obj(Null)} \cup {At(t) : t \in TsSet}

TitleShapes ==
    {Absent, Null, Str(<<"T">>), Obj(Absent), Obj(Null), Obj(Str(<<"T">>)),
     Obj(Str(<<" ">>)), Obj(Num(7)), Obj(Obj(Absent)), Obj(Obj(Null)),
     Nested(<<>>), Nested(<<" ">>), Nested(<<"T">>), Nested(<<"U">>)}

DoiX == Ext(Str(<<"d", "o", "i">>), Str(<<"x">>))
DoiY == Ext(Str(<<"D", "O", "I">>), Str(<<"y">>))
DoiZ == Ext(Str(<<"D", "o", "i">>), Str(<<"z">>))
DoiEmpty == Ext(Str(<<"d", "o", "i">>), Str(<<>>))
DoiNoValue == Ext(Str(<<"D", "o", "I">>), Absent)
DoiNullValue == Ext(Str(<<"d", "o", "i">>), Null)
DoiNumValue == Ext(Str(<<"d", "o", "i">>), Num(5))
Pmid == Ext(Str(<<"p", "m", "i", "d">>), Str(<<"x">>))
NullType == Ext(Null, Str(<<"x">>))
NoType == Ext(Absent, Str(<<"y">>))

ExtLists ==
    {<<>>, <<DoiX>>, <<DoiY>>, <<DoiZ>>, <<Pmid>>, <<DoiEmpty>>, <<DoiNumValue>>,
     <<Pmid, DoiX>>, <<DoiY, DoiX>>, <<DoiEmpty, DoiY>>, <<DoiNoValue, DoiZ>>,
     <<DoiNullValue, Pmid>>, <<NullType, NoType>>, <<NoType, DoiX>>,
     <<DoiX, DoiNumValue>>}

ExtShapes == {Absent, Null, Obj(Absent), Obj(Null)} \cup {Obj(List(l)) : l \in ExtLists}

\* plain entries: a nested title, a recent date, no external id
Fillers ==
    {Ws(At(DayMs), Nested(<<"T">>), Absent),
     Ws(At(DayMs), Nested(<<"U">>), Absent),
     Ws(At(DayMs + 1), Nested(<<"T">>), Absent)}

\* entries that vary one field of a plain, recent entry
Entries ==
    Fillers
    \cup {Ws(l, Nested(<<"T">>), Obj(List(<<DoiX>>))) : l \in LmdShapes}
    \cup {Ws(At(DayMs + 1), t, Absent) : t \in TitleShapes}
    \cup {Ws(At(DayMs + 1), Nested(<<"U">>), x) : x \in ExtShapes}

\* sequences of at most MaxWs entries, at most one of them not plain
EntrySeqs ==
    UNION {[1..n -> Fillers]
           \cup {[s EXCEPT ![m] = e] : s \in [1..n -> Fillers], m \in 1..n, e \in Entries} :
           n \in 0..MaxWs}

\* a works response with the entries es in three groups: the first entry in
\* the first, mid under "work-summary" in the second, the rest in the third
GroupsOf(es, mid) ==
    LET k == IF es = <<>> THEN 0 ELSE 1
    IN  <<Obj(List(SubSeq(es, 1, k))), Obj(mid),
          Obj(List(SubSeq(es, k + 1, Len(es))))>>

FilterInputs ==
    {[groups |-> GroupsOf(es, mid), days |-> d, now |-> NowMs] :
        es \in EntrySeqs, mid \in {Absent, Null}, d \in 0..MaxDays}

----------------------------------------------------------------------------
(* filter_recent alone *)

RunIdle ==
    /\ cfg = NotCalled /\ works = NotCalled /\ pc = "idle" /\ idx = 0
    /\ items = <<>> /\ pos = 0 /\ posted = 0 /\ name_cache = <<>>
    /\ doc = NotCalled /\ published = <<>> /\ calls = <<>> /\ failure = "none"
FilterIdle == f_in = NotCalled /\ f_out = NotCalled
NameIdle == n_in = NotCalled /\ n_out = NotCalled
ComposeIdle == c_in = NotCalled /\ c_out = NotCalled

FilterInit ==
    /\ f_in \in FilterInputs
    /\ f_out = NotCalled
    /\ RunIdle /\ NameIdle /\ ComposeIdle

CallFilter ==
    /\ f_in # NotCalled
    /\ f_out = NotCalled
    /\ f_out' = filter_recent(f_in.groups, f_in.days, f_in.now)
    /\ UNCHANGED <<f_in, runVars, nameVars, composeVars>>

FilterNext == CallFilter

SpecFilter == FilterInit /\ [][FilterNext]_vars

----------------------------------------------------------------------------
(* fetch_orcid_name alone *)

Ids == {<<"A">>, <<"B">>}

Name(given, family) == [k |-> "name", given |-> given, family |-> family]

\* what "given-names" and "family-name" can hold
NameFields ==
    {Absent, Null, Str(<<"A", "d", "a">>), Obj(Absent), Obj(Null), Obj(Str(<<>>)),
     Obj(Str(<<" ">>)), Obj(Str(<<"A", "d", "a">>)), Obj(Str(<<"L", " ">>)),
     Obj(Num(5))}

\* parsed bodies of the person request
PersonData ==
    {Null, Str(<<"x">>), Num(1), List(<<>>), Obj(Absent), Obj(Null),
     Obj(Str(<<"A", "d", "a">>)), Obj(Num(0))}
    \cup {Obj(Name(g, f)) : g \in NameFields, f \in NameFields}

\* how the person request can end: requests.get raises, raise_for_status
\* raises, r.json() raises, or r.json() returns data
PersonResponses ==
    {[k |-> "transport"], [k |-> "status"], [k |-> "unparsable"]}
    \cup {[k |-> "body", data |-> d] : d \in PersonData}

NameInit ==
    /\ n_in \in {[orcid_id |-> i, resp |-> r] : i \in Ids, r \in PersonResponses}
    /\ n_out = NotCalled
    /\ RunIdle /\ FilterIdle /\ ComposeIdle

CallName ==
    /\ n_in # NotCalled
    /\ n_out = NotCalled
    /\ n_out' = fetch_orcid_name(n_in.orcid_id, n_in.resp)
    /\ UNCHANGED <<n_in, runVars, filterVars, composeVars>>

NameNext == CallName

SpecName == NameInit /\ [][NameNext]_vars

----------------------------------------------------------------------------
(* composing alone *)

Tags ==
    {<<"a", "i">>, <<"#", "a", "i">>, <<"#", "#", "a", "i">>,
     <<"s", "c", "i", "e", "n", "c", "e">>, <<"#">>, <<>>}

HashtagSeqs == UNION {[1..n -> Tags] : n \in 0..MaxTags}

ComposeItems ==
    {Item(Str(<<"T">>), Null, DayMs),
     Item(Str(<<"T">>), Str(DoiPrefix \o <<"x">>), DayMs),
     Item(Null, Null, DayMs)}

ComposeInit ==
    /\ c_in \in {[author |-> <<"A", "d", "a">>, oid |-> <<"A">>, item |-> i,
                  hashtags |-> h] : i \in ComposeItems, h \in HashtagSeqs}
    /\ c_out = NotCalled
    /\ RunIdle /\ FilterIdle /\ NameIdle

CallCompose ==
    /\ c_in # NotCalled
    /\ c_out = NotCalled
    /\ c_out' = Compose(c_in.author, c_in.oid, c_in.item, c_in.hashtags)
    /\ UNCHANGED <<c_in, runVars, filterVars, nameVars>>

ComposeNext == CallCompose

SpecCompose == ComposeInit /\ [][ComposeNext]_vars

----------------------------------------------------------------------------
(* main *)

\* a fetch_works that swallows a failed request and reports no groups
fetch_works_swallowing(resp) ==
    IF resp.k # "body" THEN EmptyList
    ELSE LET got == DictGet(resp.data, EmptyList)
         IN  IF got.k = "raise" THEN Raise ELSE Or(got, EmptyList)

\* fetch_works(orcid_id) when the works request ends as resp: the groups,
\* or Raise (requests.get, raise_for_status, r.json() or data.get raising)
fetch_works(resp) ==
    IF resp.k # "body" THEN Raise
    ELSE LET got == DictGet(resp.data, EmptyList)
         IN  IF got.k = "raise" THEN Raise ELSE Or(got, EmptyList)

Group(es) == Obj(List(es))
RecentDoi == Ws(At(DayMs + 1), Nested(<<"T">>), Obj(List(<<DoiX>>)))
RecentPlain == Ws(At(DayMs), Nested(<<"U">>), Absent)
DayOld == Ws(At(DayMs - 1), Nested(<<"T">>), Absent)
NullTitle == Ws(At(DayMs), Obj(Obj(Null)), Absent)
NullLmd == Ws(Null, Nested(<<"T">>), Absent)

\* works bodies of the registry: what the body holds under "group"
WorksBodies ==
    {Obj(Null),
     Obj(List(<<Group(<<DayOld>>)>>)),
     Obj(List(<<Group(<<RecentPlain>>), Group(<<DayOld, RecentDoi>>)>>)),
     Obj(List(<<Group(<<NullTitle>>)>>)),
     Obj(List(<<Group(<<NullLmd>>)>>))}

\* how the works request can end
WorksResponses(oid) ==
    {[k |-> "transport"], [k |-> "status"], [k |-> "unparsable"],
     [k |-> "body", data |-> works[oid]]}

\* how the person request can end during a run
RunPersonResponses ==
    {[k |-> "transport"],
     [k |-> "body", data |-> Obj(Name(Obj(Str(<<"A", "d", "a">>)), Null))],
     [k |-> "body", data |-> Obj(Name(Str(<<"A", "d", "a">>), Absent))]}

IdSeqs == UNION {[1..n -> Ids] : n \in 0..MaxIds}
RunHashtags == {<<>>, <<(<<"#", "a", "i">>)>>}

Call(op, oid, ok) == [op |-> op, oid |-> oid, ok |-> ok]

RunInit ==
    /\ cfg \in {[orcid_ids |-> i, max_posts |-> m, days_back |-> d, hashtags |-> h] :
                   i \in IdSeqs, m \in 0..MaxPosts, d \in 0..MaxDays,
                   h \in RunHashtags}
    /\ works \in [Ids -> WorksBodies]
    /\ pc = "loop"
    /\ idx = 1
    /\ items = <<>>
    /\ pos = 0
    /\ posted = 0
    /\ name_cache = <<>>
    /\ doc = NotCalled
    /\ published = <<>>
    /\ calls = <<>>
    /\ failure = "none"
    /\ FilterIdle /\ NameIdle /\ ComposeIdle

Oid == cfg.orcid_ids[idx]

\* a budget test that is off by one
BudgetExhaustedLate == posted > cfg.max_posts

\* posted >= max_posts (lines 123 and 143)
BudgetExhausted == posted >= cfg.max_posts

Fail(what) ==
    /\ pc' = "failed"
    /\ failure' = what

\* line 122: the identifiers are exhausted, main prints the count and returns
LoopEnd ==
    /\ pc = "loop"
    /\ UNCHANGED idleVars
    /\ idx > Len(cfg.orcid_ids)
    /\ pc' = "done"
    /\ UNCHANGED <<cfg, works, idx, items, pos, posted, name_cache, doc,
                   published, calls, failure>>

\* lines 123-124: break out of the outer loop
BudgetBreak ==
    /\ pc = "loop"
    /\ UNCHANGED idleVars
    /\ idx <= Len(cfg.orcid_ids)
    /\ BudgetExhausted
    /\ pc' = "done"
    /\ UNCHANGED <<cfg, works, idx, items, pos, posted, name_cache, doc,
                   published, calls, failure>>

\* lines 122-126: the next identifier is taken up
NextId ==
    /\ pc = "loop"
    /\ UNCHANGED idleVars
    /\ idx <= Len(cfg.orcid_ids)
    /\ ~BudgetExhausted
    /\ pc' = "name"
    /\ UNCHANGED <<cfg, works, idx, items, pos, posted, name_cache, doc,
                   published, calls, failure>>

\* lines 129-131 with the identifier in the cache
NameCached ==
    /\ pc = "name"
    /\ UNCHANGED idleVars
    /\ Oid \in DOMAIN name_cache
    /\ pc' = "works"
    /\ UNCHANGED <<cfg, works, idx, items, pos, posted, name_cache, doc,
                   published, calls, failure>>

\* lines 129-131 with the identifier not in the cache: fetch_orcid_name
ResolveName ==
    /\ pc = "name"
    /\ UNCHANGED idleVars
    /\ Oid \notin DOMAIN name_cache
    /\ \E resp \in RunPersonResponses :
          LET r == fetch_orcid_name(Oid, resp)
          IN  /\ calls' = Append(calls, Call("person", Oid, resp.k = "body"))
              /\ IF r.k = "raise"
                 THEN Fail("name") /\ UNCHANGED name_cache
                 ELSE /\ name_cache' =
                            [o \in DOMAIN name_cache \cup {Oid} |->
                                IF o = Oid THEN r.s ELSE name_cache[o]]
                      /\ pc' = "works"
                      /\ UNCHANGED failure
    /\ UNCHANGED <<cfg, works, idx, items, pos, posted, doc, published>>

\* lines 135-140: fetch_works, filter_recent, and "continue" when nothing is
\* recent
FetchAndFilter ==
    /\ pc = "works"
    /\ UNCHANGED idleVars
    /\ \E resp \in WorksResponses(Oid) :
          LET groups == fetch_works(resp)
              fetched == Call("works", Oid, resp.k = "body")
          IN  IF groups.k # "list"
              THEN /\ calls' = Append(calls, fetched)
                   /\ Fail("fetch")
                   /\ UNCHANGED <<idx, items, pos>>
              ELSE LET r == filter_recent(groups.l, cfg.days_back, NowMs)
                   IN  /\ calls' = calls \o <<fetched, Call("filter", Oid, r.k = "list")>>
                       /\ IF r.k = "raise"
                          THEN Fail("filter") /\ UNCHANGED <<idx, items, pos>>
                          ELSE /\ items' = r.l
                               /\ UNCHANGED failure
                               /\ IF r.l = <<>>
                                  THEN idx' = idx + 1 /\ pos' = 0 /\ pc' = "loop"
                                  ELSE idx' = idx /\ pos' = 1 /\ pc' = "item"
    /\ UNCHANGED <<cfg, works, posted, name_cache, doc, published>>

\* line 142: the items are exhausted, on to the next identifier
ItemsEnd ==
    /\ pc = "item"
    /\ UNCHANGED idleVars
    /\ pos > Len(items)
    /\ idx' = idx + 1
    /\ pc' = "loop"
    /\ UNCHANGED <<cfg, works, items, pos, posted, name_cache, doc, published,
                   calls, failure>>

\* lines 143-144: break out of the inner loop; the outer loop goes on
ItemBreak ==
    /\ pc = "item"
    /\ UNCHANGED idleVars
    /\ pos <= Len(items)
    /\ BudgetExhausted
    /\ idx' = idx + 1
    /\ pc' = "loop"
    /\ UNCHANGED <<cfg, works, items, pos, posted, name_cache, doc, published,
                   calls, failure>>

\* lines 146-173: the post is composed
ComposePost ==
    /\ pc = "item"
    /\ UNCHANGED idleVars
    /\ pos <= Len(items)
    /\ ~BudgetExhausted
    /\ LET d == Compose(name_cache[Oid], Oid, items[pos], cfg.hashtags)
       IN  IF d.k = "raise"
           THEN Fail("compose") /\ UNCHANGED doc
           ELSE doc' = d.l /\ pc' = "send" /\ UNCHANGED failure
    /\ UNCHANGED <<cfg, works, idx, items, pos, posted, name_cache, published,
                   calls>>

\* lines 176-179: client.send_post returns
SendPost ==
    /\ pc = "send"
    /\ UNCHANGED idleVars
    /\ calls' = Append(calls, Call("send", Oid, TRUE))
    /\ published' = Append(published, [item |-> items[pos], segs |-> doc])
    /\ posted' = posted + 1
    /\ pos' = pos + 1
    /\ pc' = "item"
    /\ UNCHANGED <<cfg, works, idx, items, name_cache, doc, failure>>

\* line 176: client.send_post raises
SendFails ==
    /\ pc = "send"
    /\ UNCHANGED idleVars
    /\ calls' = Append(calls, Call("send", Oid, FALSE))
    /\ Fail("publish")
    /\ UNCHANGED <<cfg, works, idx, items, pos, posted, name_cache, doc, published>>

RunNext ==
    \/ LoopEnd \/ BudgetBreak \/ NextId \/ NameCached \/ ResolveName
    \/ FetchAndFilter \/ ItemsEnd \/ ItemBreak \/ ComposePost
    \/ SendPost \/ SendFails

Spec == RunInit /\ [][RunNext]_vars

----------------------------------------------------------------------------
(* What the specification says of filter_recent, stated on the input *)

WsList(g) == IF g.k = "obj" /\ g.f.k = "list" THEN g.f.l ELSE <<>>

RECURSIVE Flat(_)
\* the work-summary entries of a works response in the order given
Flat(groups) ==
    IF groups = <<>> THEN <<>> ELSE WsList(Head(groups)) \o Flat(Tail(groups))

HasTimestamp(ws) == ws.lmd.k = "obj" /\ ws.lmd.f.k = "num"
ShouldKeep(ws, cutoff) == HasTimestamp(ws) /\ ws.lmd.f.n >= cutoff

DoiSpellings == {<<a, b, c>> : a \in {"d", "D"}, b \in {"o", "O"}, c \in {"i", "I"}}
ExtListOf(ws) ==
    IF ws.extids.k = "obj" /\ ws.extids.f.k = "list" THEN ws.extids.f.l ELSE <<>>
IsDoi(ext) ==
    /\ ext.k = "ext"
    /\ ext.type.k = "str" /\ ext.type.s \in DoiSpellings
    /\ ext.value.k = "str" /\ ext.value.s # <<>>
\* the link the specification gives an entry: Null when it has none
SpecLink(ws) ==
    LET l == ExtListOf(ws)
        q == {n \in DOMAIN l : IsDoi(l[n])}
    IN  IF q = {} THEN Null
        ELSE Str(DoiPrefix \o l[CHOOSE n \in q : \A m \in q : n <= m].value.s)

\* the title the specification gives an entry: a bare string as it is, a
\* nested value unless it is empty after trimming, else the placeholder
SpecTitle(ws) ==
    LET t == IF ws.title.k = "obj" THEN ws.title.f ELSE Absent
    IN  CASE t.k = "str" /\ t.s # <<>> -> t.s
          [] t.k = "obj" /\ t.f.k = "str" /\ Strip(t.f.s) # <<>> -> t.f.s
          [] OTHER -> NoTitle

FIn == Flat(f_in.groups)
FCutoff == f_in.now - f_in.days * DayMs
FOut == f_out.l
FilterReturned == f_out.k = "list"

Count(s, v) == Cardinality({n \in DOMAIN s : s[n] = v})
Range(s) == {s[n] : n \in DOMAIN s}
IsItem(r) == r.k = "item"

\* what the loop appends, in input order, before the sort
Emitted ==
    SelectSeq([n \in DOMAIN FIn |-> ProcessWs(FIn[n], FCutoff)], IsItem)

----------------------------------------------------------------------------
(* Claims about filter_recent (checked under SpecFilter) *)

\* C2: every item filter_recent emits has a non-empty title, and the title is
\* "(no title)" whenever the entry's title field is missing, null, of an
\* unrecognized shape, or its nested value is absent, null or empty after
\* trimming. Stated as in the claim; the code breaks it.
C2_TitleNeverEmpty ==
    FilterReturned =>
        /\ \A n \in DOMAIN FOut :
              FOut[n].title.k = "str" /\ FOut[n].title.s # <<>>
        /\ \A v \in Range(FOut) :
              \E m \in DOMAIN FIn :
                  /\ ProcessWs(FIn[m], FCutoff).k = "item"
                  /\ v = Item(Str(SpecTitle(FIn[m])), v.url, FIn[m].lmd.f.n)

\* C3: filter_recent keeps an entry if and only if it has a last-modified
\* timestamp that is not earlier than the cutoff: for every instant, as many
\* items carry it as entries of the input do, when it is at or after the
\* cutoff, and none when it is before. Stated as in the claim; the code breaks
\* it.
C3_KeptIffNotBeforeCutoff ==
    FilterReturned =>
        \A t \in TsSet :
            Cardinality({n \in DOMAIN FOut : FOut[n].date = t})
                = Cardinality({m \in DOMAIN FIn : /\ ShouldKeep(FIn[m], FCutoff)
                                                  /\ FIn[m].lmd.f.n = t})

\* C6: every emitted item carries the link the specification gives its entry:
\* none unless an external id of type "doi" (in any case) has a non-empty
\* value, else "https://doi.org/" plus the value of the first such id. The
\* items returned are, with multiplicity, the entries kept with that link.
C6_LinkIsFirstDoi ==
    FilterReturned =>
        LET expected ==
                [n \in DOMAIN FIn |->
                    LET r == ProcessWs(FIn[n], FCutoff)
                    IN  IF r.k = "item"
                        THEN Item(r.title, SpecLink(FIn[n]), r.date)
                        ELSE Skip]
        IN  \A v \in (Range(FOut) \cup Range(expected)) \ {Skip} :
                Count(FOut, v) = Count(expected, v)

\* C6's case: an item whose link comes from the second external id, spelled
\* "DOI", after a first one of type "doi" with an empty value
C6_Witness ==
    /\ FilterReturned
    /\ \E m \in DOMAIN FIn :
          /\ ExtListOf(FIn[m]) = <<DoiEmpty, DoiY>>
          /\ \E n \in DOMAIN FOut : FOut[n].url = Str(DoiPrefix \o <<"y">>)
    /\ \E n \in DOMAIN FOut : FOut[n].url = Null

\* C7: the result is the emitted items ordered by date descending, and the
\* items of one same date stand in the order the loop emitted them (groups,
\* then work-summaries, as given).
C7_SortedNewestFirstStable ==
    FilterReturned =>
        /\ Len(FOut) = Len(Emitted)
        /\ \A n, m \in DOMAIN FOut : n < m => FOut[n].date >= FOut[m].date
        /\ \A t \in TsSet :
              LET OnT(x) == x.date = t
              IN  SelectSeq(FOut, OnT) = SelectSeq(Emitted, OnT)

\* C7's case: three items, two of one date that differ, emitted before a
\* newer one that the sort moves to the front
C7_Witness ==
    /\ FilterReturned
    /\ Len(FOut) = 3
    /\ Emitted[1].date = Emitted[2].date
    /\ Emitted[1] # Emitted[2]
    /\ Emitted[3].date > Emitted[1].date
    /\ FOut = <<Emitted[3], Emitted[1], Emitted[2]>>

----------------------------------------------------------------------------
(* Claim about fetch_orcid_name (checked under SpecName) *)

\* C5: fetch_orcid_name never fails outward: whatever the person request
\* gives, it returns a non-empty string, and the identifier itself when the
\* request fails. Stated as in the claim; the code breaks it.
C5_NameNeverFails ==
    n_out # NotCalled =>
        /\ n_out.k = "str"
        /\ n_out.s # <<>>
        /\ n_in.resp.k # "body" => n_out.s = n_in.orcid_id

----------------------------------------------------------------------------
(* Claim about the hashtag line (checked under SpecCompose) *)

\* a hashtag without its leading "#"s
SpecStrip(t) ==
    LET h == {n \in 0..Len(t) : \A m \in 1..n : t[m] = "#"}
        k == CHOOSE n \in h : \A m \in h : m <= n
    IN  SubSeq(t, k + 1, Len(t))

RECURSIVE SpecTagLine(_)
\* "#tag" of every hashtag, one space between two
SpecTagLine(tags) ==
    IF tags = <<>> THEN <<>>
    ELSE <<"#">> \o SpecStrip(Head(tags))
         \o (IF Len(tags) > 1 THEN <<" ">> \o SpecTagLine(Tail(tags)) ELSE <<>>)

COut == c_out.l
Composed == c_out.k = "list"
TagCount == Cardinality({n \in DOMAIN COut : COut[n].kind = "tag"})
\* the last Len(hashtags) segments
TagTail ==
    SubSeq(COut, Len(COut) - Len(c_in.hashtags) + 1, Len(COut))

\* C8: with hashtags configured, the document ends with a line break and then
\* exactly one tag span per hashtag, in order, whose value is the hashtag
\* without leading "#" and whose text is "#" plus that value (plus the
\* separating space, for all but the last); the line reads "#a #b" with no
\* trailing space. With none configured there is no tag line and no tag span.
C8_HashtagLine ==
    Composed =>
        IF c_in.hashtags = <<>>
        THEN /\ TagCount = 0
             /\ COut[Len(COut)] # TextSeg(<<"\n">>)
        ELSE /\ Len(COut) > Len(c_in.hashtags)
             /\ COut[Len(COut) - Len(c_in.hashtags)] = TextSeg(<<"\n">>)
             /\ TagCount = Len(c_in.hashtags)
             /\ \A n \in DOMAIN TagTail :
                   /\ TagTail[n].kind = "tag"
                   /\ TagTail[n].target = SpecStrip(c_in.hashtags[n])
                   /\ TagTail[n].text =
                          <<"#">> \o SpecStrip(c_in.hashtags[n])
                          \o (IF n < Len(TagTail) THEN <<" ">> ELSE <<>>)
             /\ build_text(TagTail) = SpecTagLine(c_in.hashtags)

\* C8's case: ["#ai", "science"] composed to the line "#ai #science"
C8_Witness ==
    /\ Composed
    /\ c_in.hashtags = <<(<<"#", "a", "i">>), (<<"s", "c", "i", "e", "n", "c", "e">>)>>
    /\ build_text(TagTail)
          = <<"#", "a", "i", " ", "#", "s", "c", "i", "e", "n", "c", "e">>
    /\ TagTail[1].target = <<"a", "i">>
    /\ TagTail[2].target = <<"s", "c", "i", "e", "n", "c", "e">>

----------------------------------------------------------------------------
(* Claims about a run of main() (checked under Spec) *)

CountOps(c, ops) == Cardinality({n \in DOMAIN c : c[n].op \in ops})
Sends(c) == CountOps(c, {"send"})
RegistryCalls(c) == CountOps(c, {"person", "works", "filter"})

\* C1: posted never exceeds max_posts_total and never decreases, and once it
\* has reached max_posts_total no client.send_post is made and nothing more
\* is published.
C1_BudgetNeverExceeded ==
    /\ posted <= cfg.max_posts
    /\ [][/\ posted' <= cfg.max_posts
          /\ posted' >= posted
          /\ posted >= cfg.max_posts =>
                Sends(calls') = Sends(calls) /\ published' = published]_vars

\* C1's case: the budget is spent while items of the identifier remain
C1_Witness ==
    /\ pc = "item"
    /\ cfg.max_posts > 0
    /\ posted = cfg.max_posts
    /\ pos <= Len(items)
    /\ idx < Len(cfg.orcid_ids)

\* C4: a works request or a send_post that fails is the last call of the run
\* and leaves main() failed: nothing is fetched or published after it, and
\* what was published before it stays counted and published.
C4_FailureEndsRun ==
    /\ \A n \in DOMAIN calls :
          (calls[n].op \in {"works", "send"} /\ ~calls[n].ok) =>
              /\ n = Len(calls)
              /\ pc = "failed"
              /\ failure = IF calls[n].op = "works" THEN "fetch" ELSE "publish"
    /\ posted = Len(published)
    /\ Len(published) =
          Cardinality({n \in DOMAIN calls : calls[n].op = "send" /\ calls[n].ok})

\* C4's case: send_post fails after a post was published, with an identifier
\* still to come
C4_Witness ==
    /\ pc = "failed"
    /\ failure = "publish"
    /\ posted = 1
    /\ Len(published) = 1
    /\ idx < Len(cfg.orcid_ids)

\* C9: from the moment posted >= max_posts_total no name lookup, works fetch
\* or filter is made any more.
C9_NoRegistryCallOnceExhausted ==
    [][posted >= cfg.max_posts =>
          RegistryCalls(calls') = RegistryCalls(calls)]_vars

\* C9's case: the budget was reached on the last item of an identifier, and
\* main() ended with an identifier not looked at
C9_Witness ==
    /\ pc = "done"
    /\ cfg.max_posts > 0
    /\ posted = cfg.max_posts
    /\ pos = Len(items) + 1
    /\ idx <= Len(cfg.orcid_ids)
    /\ CountOps(calls, {"works"}) < Len(cfg.orcid_ids)

\* the recent items of an identifier, newest first, as the registry has them
RecentOf(oid) ==
    LET g == fetch_works([k |-> "body", data |-> works[oid]])
        r == IF g.k = "list" THEN filter_recent(g.l, cfg.days_back, NowMs) ELSE Raise
    IN  IF r.k = "list" THEN r.l ELSE <<>>

RECURSIVE AllRecent(_)
\* the recent items of the identifiers ids, concatenated in order
AllRecent(ids) ==
    IF ids = <<>> THEN <<>> ELSE RecentOf(Head(ids)) \o AllRecent(Tail(ids))

Min(a, b) == IF a <= b THEN a ELSE b

\* C10: a run in which no fetch and no publish fails ends normally, having
\* published exactly the first min(max_posts_total, N) recent items of the
\* identifiers in configured order, with posted = min(max_posts_total, N).
\* Stated as in the claim, of the runs that neither filter_recent (N is not
\* defined there) nor fetch_orcid_name (C5) ends; the code breaks it.
C10_PublishesPrefix ==
    (/\ pc \in {"done", "failed"}
     /\ failure \notin {"fetch", "publish", "filter", "name"}) =>
        LET all == AllRecent(cfg.orcid_ids)
            n == Min(cfg.max_posts, Len(all))
        IN  /\ pc = "done"
            /\ posted = n
            /\ [m \in DOMAIN published |-> published[m].item] = SubSeq(all, 1, n)

====
